---- MODULE Spec2Model ----
(***************************************************************************)
(* Model of mixel's Sprite (src/src/Mixel.ts): the constructor and the     *)
(* pipeline init() runs, applyMask -> generateRandomSample -> mirrorX ->   *)
(* mirrorY -> generateEdges -> calculateColors.                            *)
(*                                                                         *)
(* Numbers.  JavaScript numbers in [0, 1] (options, random draws, colour   *)
(* channels) are fixed-point integers in units of 1/Scale; a product of    *)
(* two of them is divided by Scale.  imageData entries are in units of     *)
(* 1/Scale of a byte value, so 255 is stored as 255 * Scale.  Math.sin is  *)
(* Bhaskara's rational approximation.                                      *)
(*                                                                         *)
(* Random source.  seedrandom is an external library: a seed determines    *)
(* the whole stream of draws.  A seed is modelled by the stream it         *)
(* determines, a periodic sequence of draws (period Period) over DrawVals; *)
(* without a seed the library seeds itself from entropy, which is a        *)
(* nondeterministic choice of the stream.                                  *)
(***************************************************************************)
EXTENDS Integers, Sequences, FiniteSets, TLC

\* ------------------------------------------------------------------ bounds
\* cells of a mask; cells of a mask that is constructed with colored or tint;
\* cells of a mask that is constructed without a seed, with a
\* randomSampleCallback (the mask of scenario B apart) or more than once (a
\* repeated construction is given a seed, maybe colored);
\* cells of the grids the scan orders are compared on
MaxCells == 3
SmallCells == 2
TinyCells == 1
BiasCells == 5
\* period of a random stream, sprites a caller constructs from one mask
Period == 2
MaxSprites == 2
\* fixed-point unit
Scale == 100

\* ------------------------------------------------------- SpriteStructure
AlwaysBorder == -1
Empty == 0
RandomlyEmptyBody == 1
RandomlyBorderBody == 2

SpriteStructure == {AlwaysBorder, Empty, RandomlyEmptyBody, RandomlyBorderBody}

\* the value of mask.data[i] for i outside the array (JavaScript undefined);
\* it is === to no member of SpriteStructure
Undefined == 9

Frac(n, d) == (n * Scale) \div d

Abs(i) == IF i < 0 THEN -i ELSE i

\* ------------------------------------------------------------------ inputs
Dims == {wh \in (0..MaxCells) \X (0..MaxCells) : wh[1] * wh[2] <= MaxCells}

\* the lengths of mask.data: width * height, and one short of it
DataLens(w, h) == {n \in {w * h - 1, w * h} : n >= 0}

Masks ==
  UNION { UNION { { [width |-> wh[1], height |-> wh[2], mirrorX |-> mx, mirrorY |-> my, data |-> d] :
                    d \in [1..n -> SpriteStructure], mx \in BOOLEAN, my \in BOOLEAN }
                  : n \in DataLens(wh[1], wh[2]) }
          : wh \in Dims }

\* the values a draw takes: one on each side of every threshold the code compares a draw with
DrawVals == {Frac(2, 5), Frac(4, 5)}

Seeds == [1..Period -> DrawVals]

Option(field, vals) == {<<>>} \cup {field :> v : v \in vals}

Tints == {[r |-> Scale, g |-> Frac(1, 2), b |-> 0]}

Callbacks == {"identity"}

\* edgeBrightness and colorVariations are left to their defaults or given together
Tunings == {<<>>, ("edgeBrightness" :> Frac(3, 5)) @@ ("colorVariations" :> Frac(9, 10))}

Options ==
  { c @@ e @@ t @@ s @@ f :
      c \in Option("colored", {TRUE}),
      e \in Tunings,
      t \in Option("tint", Tints),
      s \in Option("seed", Seeds),
      f \in Option("randomSampleCallback", Callbacks) }

\* ------------------------------------------------------------------- state
\* mask, opts      the constructor's arguments
\* spriteCount     how many sprites the caller constructs from them, one after another
\* pc              the stage init() runs next
\* spriteOpts .. rng   the fields of the sprite under construction
\* warnings        the console.warn calls of its constructor
\* preEdges, isVertical, hueChanges   what calculateColors and generateEdges saw:
\*                 the grid entering generateEdges, the gradient axis, the hue reassignments
\* sprites         the sprites finished before this one
VARIABLES mask, opts, spriteCount, pc, spriteOpts, data, imageData, rng, warnings,
          preEdges, isVertical, hueChanges, sprites

vars == <<mask, opts, spriteCount, pc, spriteOpts, data, imageData, rng, warnings,
          preEdges, isVertical, hueChanges, sprites>>

\* ---------------------------------------------------------------- getters
width(m) == m.width * (IF m.mirrorX THEN 2 ELSE 1)

height(m) == m.height * (IF m.mirrorY THEN 2 ELSE 1)

getData(d, m, x, y) == d[y * width(m) + x + 1]

setData(d, m, x, y, value) == [d EXCEPT ![y * width(m) + x + 1] = value]

\* mask.data[i], 0-based
maskData(m, i) == IF i < Len(m.data) THEN m.data[i + 1] ELSE Undefined

\* --------------------------------------------------------------------- rng
\* one generator shared by all sprites: a later sprite goes on in the stream
SeedRandomShared(o) ==
  IF pc = "new"
  THEN IF "seed" \in DOMAIN o THEN {[seed |-> o.seed, n |-> 0]}
       ELSE {[seed |-> s, n |-> 0] : s \in Seeds}
  ELSE {[seed |-> rng.seed, n |-> rng.n]}

\* line 105: SeedRandom(this.spriteOpts.seed), the generators it can return
SeedRandom(o) == IF "seed" \in DOMAIN o THEN {[seed |-> o.seed, n |-> 0]}
                 ELSE {[seed |-> s, n |-> 0] : s \in Seeds}

\* the value this.rng() returns next, and the generator after the call
rngValue(r) == r.seed[(r.n % Period) + 1]

rngNext(r) == [r EXCEPT !.n = @ + 1]

\* ------------------------------------------------------------- constructor
defaults ==
  [colored |-> FALSE, edgeBrightness |-> Frac(3, 10), colorVariations |-> Frac(1, 5),
   brightnessNoise |-> Frac(3, 10), saturation |-> Frac(1, 2),
   randomSampleCallback |-> "default"]

merge(d, o) == o @@ d

\* the test made on the mask's own width
warnXMask(m) == m.width % 2 # 0 /\ m.mirrorX

warnX(m) == width(m) % 2 # 0 /\ m.mirrorX

warnY(m) == height(m) % 2 # 0 /\ m.mirrorY

constructorWarnings(m) ==
  (IF warnX(m) THEN {"width"} ELSE {}) \cup (IF warnY(m) THEN {"height"} ELSE {})

\* ---------------------------------------------------------------- applyMask
RECURSIVE applyMaskFrom(_, _, _)
applyMaskFrom(d, m, k) ==
  IF k >= m.width * m.height THEN d
  ELSE applyMaskFrom(setData(d, m, k % m.width, k \div m.width, maskData(m, k)), m, k + 1)

applyMask(d, m) == applyMaskFrom(d, m, 0)

\* ------------------------------------------------------ generateRandomSample
MathRound(d) == IF 2 * d >= Scale THEN 1 ELSE 0

\* the callback's result for a cell holding val, and the generator afterwards
randomSampleCallback(cb, val, r) ==
  IF cb = "default"
  THEN IF val = RandomlyEmptyBody
       THEN [val |-> val * MathRound(rngValue(r)), rng |-> rngNext(r)]
       ELSE IF val = RandomlyBorderBody
       THEN [val |-> IF 2 * rngValue(r) > Scale THEN RandomlyEmptyBody ELSE AlwaysBorder,
             rng |-> rngNext(r)]
       ELSE [val |-> val, rng |-> r]
  ELSE [val |-> val, rng |-> r]

\* line 138: the cell at (x, y) is set to the callback's result
sampleCell(st, m, x, y, res) == [data |-> setData(st.data, m, x, y, res.val), rng |-> res.rng]

RECURSIVE generateRandomSampleFrom(_, _, _, _)
generateRandomSampleFrom(st, m, cb, k) ==
  IF k >= width(m) * height(m) THEN st
  ELSE generateRandomSampleFrom(
         sampleCell(st, m, k % width(m), k \div width(m),
                    randomSampleCallback(cb, getData(st.data, m, k % width(m), k \div width(m)),
                                         st.rng)),
         m, cb, k + 1)

\* the result is [data, rng]: the grid and the generator after the pass
generateRandomSample(d, m, cb, r) == generateRandomSampleFrom([data |-> d, rng |-> r], m, cb, 0)

\* ------------------------------------------------------------------ mirror
\* half of the mask's width instead of the sprite's
mirrorXHalfMask(m) == m.width \div 2

mirrorXHalf(m) == width(m) \div 2

RECURSIVE mirrorXFrom(_, _, _)
mirrorXFrom(d, m, k) ==
  IF k >= height(m) * mirrorXHalf(m) THEN d
  ELSE LET mx == k % mirrorXHalf(m)
           my == k \div mirrorXHalf(m)
       IN mirrorXFrom(setData(d, m, width(m) - mx - 1, my, getData(d, m, mx, my)), m, k + 1)

mirrorX(d, m) == mirrorXFrom(d, m, 0)

mirrorYHalf(m) == height(m) \div 2

RECURSIVE mirrorYFrom(_, _, _)
mirrorYFrom(d, m, k) ==
  IF k >= mirrorYHalf(m) * width(m) THEN d
  ELSE LET nx == k % width(m)
           ny == k \div width(m)
       IN mirrorYFrom(setData(d, m, nx, height(m) - ny - 1, getData(d, m, nx, ny)), m, k + 1)

mirrorY(d, m) == mirrorYFrom(d, m, 0)

\* ----------------------------------------------------------- generateEdges
\* only Empty cells skipped: a border grows borders of its own
isBodyNotEmpty(val) == ~(val = Empty)

\* line 172: the cells the pass does not skip
isBody(val) == ~(val = AlwaysBorder \/ val = Empty)

\* one of lines 174-177: the neighbour at (x, y), when it is inside the grid
\* and holds Empty, becomes AlwaysBorder
markEdge(d, m, x, y, inside) ==
  IF inside /\ getData(d, m, x, y) = Empty THEN setData(d, m, x, y, AlwaysBorder) ELSE d

\* one iteration of the loop body at (x, y), on the grid as it is now
edgesVisit(d, m, x, y) ==
  IF ~isBody(getData(d, m, x, y)) THEN d
  ELSE markEdge(markEdge(markEdge(markEdge(d, m, x, y - 1, y - 1 >= 0),
                                  m, x, y + 1, y + 1 < height(m)),
                         m, x - 1, y, x - 1 >= 0),
                m, x + 1, y, x + 1 < width(m))

RECURSIVE generateEdgesFrom(_, _, _)
generateEdgesFrom(d, m, k) ==
  IF k >= width(m) * height(m) THEN d
  ELSE generateEdgesFrom(edgesVisit(d, m, k % width(m), k \div width(m)), m, k + 1)

generateEdges(d, m) == generateEdgesFrom(d, m, 0)

\* ---------------------------------------------------------- calculateColors
\* Math.sin((u / ulen) * Math.PI), Bhaskara's approximation, in 1/Scale
MathSinPi(u, ulen) ==
  (Scale * 16 * u * (ulen - u)) \div (5 * ulen * ulen - 4 * u * (ulen - u))

hslToRgb(h, s, l) ==
  LET i == (h * 6) \div Scale
      f == h * 6 - i * Scale
      p == (l * (Scale - s)) \div Scale
      q == (l * (Scale - (f * s) \div Scale)) \div Scale
      t == (l * (Scale - ((Scale - f) * s) \div Scale)) \div Scale
  IN CASE i % 6 = 0 -> [r |-> l, g |-> t, b |-> p]
       [] i % 6 = 1 -> [r |-> q, g |-> l, b |-> p]
       [] i % 6 = 2 -> [r |-> p, g |-> l, b |-> t]
       [] i % 6 = 3 -> [r |-> p, g |-> q, b |-> l]
       [] i % 6 = 4 -> [r |-> t, g |-> p, b |-> l]
       [] i % 6 = 5 -> [r |-> l, g |-> p, b |-> q]

\* the border scaled by edgeBrightness, as in the colored branch
plainRgbEdge(val, so) ==
  IF val = AlwaysBorder
  THEN [r |-> so.edgeBrightness, g |-> so.edgeBrightness, b |-> so.edgeBrightness]
  ELSE [r |-> Scale, g |-> Scale, b |-> Scale]

\* lines 249-253: rgb of a non-Empty cell when the sprite is not colored
plainRgb(val, so) ==
  IF val = AlwaysBorder THEN [r |-> 0, g |-> 0, b |-> 0]
  ELSE [r |-> Scale, g |-> Scale, b |-> Scale]

\* lines 231-234
brightness(so, u, ulen, draw) ==
  (MathSinPi(u, ulen) * (Scale - so.brightnessNoise)) \div Scale + draw + so.brightnessNoise

\* lines 242-246
edgeScaled(val, so, c) ==
  IF val = AlwaysBorder
  THEN [r |-> (c.r * so.edgeBrightness) \div Scale,
        g |-> (c.g * so.edgeBrightness) \div Scale,
        b |-> (c.b * so.edgeBrightness) \div Scale]
  ELSE c

\* lines 231-246: rgb of a non-Empty cell when the sprite is colored; draw is
\* the value of the pixel's own this.rng() call
coloredRgb(val, so, hue, saturation, u, ulen, draw) ==
  edgeScaled(val, so, hslToRgb(hue, saturation, brightness(so, u, ulen, draw)))

\* lines 223-256: rgb of the cell holding val
pixelRgb(val, so, hue, saturation, u, ulen, draw) ==
  IF val = Empty THEN [r |-> Scale, g |-> Scale, b |-> Scale]
  ELSE IF so.colored THEN coloredRgb(val, so, hue, saturation, u, ulen, draw)
  ELSE plainRgb(val, so)

tintMask(so) == IF "tint" \in DOMAIN so THEN so.tint ELSE [r |-> Scale, g |-> Scale, b |-> Scale]

\* lines 215-221: the cell and the buffer index of (u, v)
cellX(vertical, u, v) == IF vertical THEN v ELSE u

cellY(vertical, u, v) == IF vertical THEN u ELSE v

\* the vertical formula on both axes
pixelIndexOneAxis(vertical, u, v, ulen, vlen) == (u * vlen + v) * 4

pixelIndex(vertical, u, v, ulen, vlen) ==
  IF vertical THEN (u * vlen + v) * 4 ELSE (v * ulen + u) * 4

\* imageData[index] = value on a JavaScript array: a write past the end
\* lengthens the array and leaves holes, which read as undefined
arrayWrite(a, index, value) ==
  IF index < Len(a) THEN [a EXCEPT ![index + 1] = value]
  ELSE a \o [j \in 1..(index - Len(a)) |-> Undefined] \o <<value>>

\* lines 258-267: the four writes of one pixel, then the tint
writePixel(img, index, val, rgb, tm) ==
  LET r0 == rgb.r * 255
      g0 == rgb.g * 255
      b0 == rgb.b * 255
      a1 == arrayWrite(img, index, IF val # Empty THEN (r0 * tm.r) \div Scale ELSE r0)
      a2 == arrayWrite(a1, index + 1, IF val # Empty THEN (g0 * tm.g) \div Scale ELSE g0)
      a3 == arrayWrite(a2, index + 2, IF val # Empty THEN (b0 * tm.b) \div Scale ELSE b0)
  IN arrayWrite(a3, index + 3, 255 * Scale)

\* lines 211-268, one iteration: the pixel of the cell holding val is written
\* at index; a colored non-Empty cell takes one draw.
\* st = [img, rng, hue, changes, vertical]
colorPixel(st, so, saturation, u, ulen, index, val) ==
  [st EXCEPT !.img = writePixel(@, index, val,
                                pixelRgb(val, so, st.hue, saturation, u, ulen, rngValue(st.rng)),
                                tintMask(so)),
             !.rng = IF val # Empty /\ so.colored THEN rngNext(@) ELSE @]

RECURSIVE colorsInner(_, _, _, _, _, _, _, _)
colorsInner(st, d, m, so, saturation, u, v, len) ==
  IF v >= len.v THEN st
  ELSE colorsInner(colorPixel(st, so, saturation, u, len.u,
                              pixelIndex(st.vertical, u, v, len.u, len.v),
                              getData(d, m, cellX(st.vertical, u, v), cellY(st.vertical, u, v))),
                   d, m, so, saturation, u, v + 1, len)

\* lines 199-205: the three draws of the colour-change signal; the comma
\* operator keeps the last.  The generator after them, and whether
\* isNewColor > 1 - colorVariations
\* one draw for the colour-change signal
newColorRngOne(r) == rngNext(r)

newColorRng(r) == rngNext(rngNext(rngNext(r)))

isNewColor(r, so) ==
  Abs(rngValue(rngNext(rngNext(r))) * 2 - Scale) > 3 * (Scale - so.colorVariations)

\* lines 199-209
colorChange(st, so) ==
  IF isNewColor(st.rng, so)
  THEN [st EXCEPT !.hue = rngValue(newColorRng(st.rng)),
                  !.rng = rngNext(newColorRng(@)),
                  !.changes = @ + 1]
  ELSE [st EXCEPT !.rng = newColorRng(@)]

\* lines 198-269: the outer loop
RECURSIVE colorsOuter(_, _, _, _, _, _, _)
colorsOuter(st, d, m, so, saturation, u, len) ==
  IF u >= len.u THEN st
  ELSE colorsOuter(colorsInner(colorChange(st, so), d, m, so, saturation, u, 0, len),
                   d, m, so, saturation, u + 1, len)

Min(a, b) == IF a < b THEN a ELSE b

Max(a, b) == IF a > b THEN a ELSE b

\* line 184
saturationOf(so, draw) == Max(Min((draw * so.saturation) \div Scale, Scale), 0)

\* lines 187-196
gradientLens(m, vertical) ==
  IF vertical THEN [u |-> height(m), v |-> width(m)] ELSE [u |-> width(m), v |-> height(m)]

\* lines 183-270; the draws are isVerticalGradient, saturation and hue, in this
\* order.  The result is [img, rng, hue, changes, vertical]
calculateColors(img, d, m, so, r) ==
  colorsOuter([img |-> img, rng |-> rngNext(rngNext(rngNext(r))),
               hue |-> rngValue(rngNext(rngNext(r))), changes |-> 0,
               vertical |-> 2 * rngValue(r) > Scale],
              d, m, so, saturationOf(so, rngValue(rngNext(r))), 0,
              gradientLens(m, 2 * rngValue(r) > Scale))

\* ----------------------------------------------------------------- actions
\* the mask of the specification's scenario B
ScenarioBMask ==
  [width |-> 1, height |-> 3, mirrorX |-> FALSE, mirrorY |-> FALSE,
   data |-> <<Empty, RandomlyBorderBody, Empty>>]

Init ==
  /\ mask \in Masks
  /\ opts \in Options
  /\ spriteCount \in 1..MaxSprites
  /\ spriteCount > 1 => "seed" \in DOMAIN opts /\ DOMAIN opts \subseteq {"seed", "colored"}
  /\ (spriteCount > 1 \/ "seed" \notin DOMAIN opts) => mask.width * mask.height <= TinyCells
  /\ ("colored" \in DOMAIN opts \/ "tint" \in DOMAIN opts)
       => mask.width * mask.height <= SmallCells
  /\ "randomSampleCallback" \in DOMAIN opts
       => mask.width * mask.height <= TinyCells \/ mask = ScenarioBMask
  /\ pc = "new"
  /\ spriteOpts = <<>>
  /\ data = <<>>
  /\ imageData = <<>>
  /\ rng = <<>>
  /\ warnings = {}
  /\ preEdges = <<>>
  /\ isVertical = FALSE
  /\ hueChanges = 0
  /\ sprites = <<>>

\* new Sprite(mask, opts), lines 74-106, up to the call of init(); a further
\* construction from the same arguments keeps the finished sprite in sprites
Construct ==
  /\ pc = "new" \/ (pc = "done" /\ Len(sprites) + 1 < spriteCount)
  /\ sprites' = IF pc = "done"
                THEN Append(sprites, [data |-> data, imageData |-> imageData,
                                      seed |-> rng.seed])
                ELSE sprites
  /\ data' = [i \in 1..(width(mask) * height(mask)) |-> AlwaysBorder]
  /\ imageData' = <<>>
  /\ warnings' = constructorWarnings(mask)
  /\ spriteOpts' = merge(defaults, opts)
  /\ rng' \in SeedRandom(merge(defaults, opts))
  /\ preEdges' = <<>>
  /\ isVertical' = FALSE
  /\ hueChanges' = 0
  /\ pc' = "applyMask"
  /\ UNCHANGED <<mask, opts, spriteCount>>

ApplyMask ==
  /\ pc = "applyMask"
  /\ data' = applyMask(data, mask)
  /\ pc' = "generateRandomSample"
  /\ UNCHANGED <<mask, opts, spriteCount, spriteOpts, imageData, rng, warnings, preEdges, isVertical,
                 hueChanges, sprites>>

GenerateRandomSample ==
  /\ pc = "generateRandomSample"
  /\ \E res \in {generateRandomSample(data, mask, spriteOpts.randomSampleCallback, rng)} :
        /\ data' = res.data
        /\ rng' = res.rng
  /\ pc' = "mirrorX"
  /\ UNCHANGED <<mask, opts, spriteCount, spriteOpts, imageData, warnings, preEdges, isVertical,
                 hueChanges, sprites>>

MirrorX ==
  /\ pc = "mirrorX"
  /\ data' = IF mask.mirrorX THEN mirrorX(data, mask) ELSE data
  /\ pc' = "mirrorY"
  /\ UNCHANGED <<mask, opts, spriteCount, spriteOpts, imageData, rng, warnings, preEdges, isVertical,
                 hueChanges, sprites>>

MirrorY ==
  /\ pc = "mirrorY"
  /\ data' = IF mask.mirrorY THEN mirrorY(data, mask) ELSE data
  /\ pc' = "generateEdges"
  /\ UNCHANGED <<mask, opts, spriteCount, spriteOpts, imageData, rng, warnings, preEdges, isVertical,
                 hueChanges, sprites>>

GenerateEdges ==
  /\ pc = "generateEdges"
  /\ preEdges' = data
  /\ data' = generateEdges(data, mask)
  /\ pc' = "calculateColors"
  /\ UNCHANGED <<mask, opts, spriteCount, spriteOpts, imageData, rng, warnings, isVertical,
                 hueChanges, sprites>>

CalculateColors ==
  /\ pc = "calculateColors"
  /\ \E res \in {calculateColors(imageData, data, mask, spriteOpts, rng)} :
        /\ imageData' = res.img
        /\ rng' = res.rng
        /\ hueChanges' = res.changes
        /\ isVertical' = res.vertical
  /\ pc' = "done"
  /\ UNCHANGED <<mask, opts, spriteCount, spriteOpts, data, warnings, preEdges, sprites>>

Next ==
  \/ Construct
  \/ ApplyMask
  \/ GenerateRandomSample
  \/ MirrorX
  \/ MirrorY
  \/ GenerateEdges
  \/ CalculateColors

Spec == Init /\ [][Next]_vars

\* ------------------------------------------------------------- properties
W == width(mask)

H == height(mask)

Cells == (0..(W - 1)) \X (0..(H - 1))

Neighbours(c) ==
  {n \in Cells : (n[1] = c[1] /\ Abs(n[2] - c[2]) = 1) \/ (n[2] = c[2] /\ Abs(n[1] - c[1]) = 1)}

\* the cell of a grid, and the four entries of a pixel in a buffer
cell(d, c) == getData(d, mask, c[1], c[2])

pixel(img, c) == SubSeq(img, (c[2] * W + c[1]) * 4 + 1, (c[2] * W + c[1]) * 4 + 4)

White == <<255 * Scale, 255 * Scale, 255 * Scale, 255 * Scale>>

Black == <<0, 0, 0, 255 * Scale>>

Started == pc # "new"

Mirrored == pc \in {"generateEdges", "calculateColors", "done"}

EdgesDone == pc \in {"calculateColors", "done"}

Done == pc = "done"

Holds(d, vals) == \E c \in Cells : cell(d, c) \in vals

\* C1: a sprite constructed again from the same mask and options, on the same
\* stream of draws, has the same structural grid and the same pixel buffer
Determinism ==
  Done => \A i \in 1..Len(sprites) :
            sprites[i].seed = rng.seed
              => sprites[i].data = data /\ sprites[i].imageData = imageData

DeterminismWitness ==
  /\ Done
  /\ Len(sprites) >= 1
  /\ sprites[1].seed = rng.seed
  /\ rng.seed[1] # rng.seed[2]
  /\ rng.n % Period = 1
  /\ spriteOpts.colored
  /\ spriteOpts.randomSampleCallback = "default"
  /\ Holds(data, {RandomlyEmptyBody})

\* C2, as stated: with mirrorX the pixel at (x, y) equals the pixel at
\* (width-1-x, y), with mirrorY the pixel at (x, y) equals the pixel at
\* (x, height-1-y), for every options value (and a mask of the right length)
MirrorSymmetricPixels ==
  (Done /\ Len(mask.data) = mask.width * mask.height)
       => /\ mask.mirrorX => \A c \in Cells : pixel(imageData, c) = pixel(imageData, <<W - 1 - c[1], c[2]>>)
          /\ mask.mirrorY => \A c \in Cells : pixel(imageData, c) = pixel(imageData, <<c[1], H - 1 - c[2]>>)

SymmetricAt(c, c2) ==
  /\ Mirrored => cell(data, c) = cell(data, c2)
  /\ Done => /\ pixel(imageData, c)[4] = pixel(imageData, c2)[4]
             /\ (~spriteOpts.colored \/ cell(data, c) = Empty)
                  => pixel(imageData, c) = pixel(imageData, c2)

\* C2, amended: the structural grid is mirror-symmetric for every options
\* value; the pixels of mirrored cells are equal when colored is false (with or
\* without tint), and with colored true for Empty cells and in the alpha byte
MirrorSymmetry ==
  Mirrored => /\ mask.mirrorX => \A c \in Cells : SymmetricAt(c, <<W - 1 - c[1], c[2]>>)
              /\ mask.mirrorY => \A c \in Cells : SymmetricAt(c, <<c[1], H - 1 - c[2]>>)

MirrorSymmetryWitness ==
  /\ Done
  /\ mask.mirrorX /\ mask.mirrorY
  /\ ~spriteOpts.colored
  /\ "tint" \in DOMAIN spriteOpts
  /\ Holds(data, {AlwaysBorder})
  /\ Holds(data, {RandomlyEmptyBody})
  /\ Holds(preEdges, {Empty})

\* C3: a mask whose data length differs from width * height fails at
\* construction: no stage runs on it and no cell is filled from an entry
\* outside the array
LengthPrecondition ==
  Len(mask.data) # mask.width * mask.height
    => /\ pc \in {"new", "applyMask"}
       /\ \A i \in 1..Len(data) : data[i] # Undefined

\* C4: without colored and without tint every pixel is (255,255,255,255) or
\* (0,0,0,255), and it is (0,0,0,255) exactly when the cell is AlwaysBorder
PlainPalette ==
  (Done /\ ~spriteOpts.colored /\ "tint" \notin DOMAIN spriteOpts)
    => \A c \in Cells :
         pixel(imageData, c) = IF cell(data, c) = AlwaysBorder THEN Black ELSE White

PlainPaletteWitness ==
  /\ Done
  /\ ~spriteOpts.colored
  /\ "tint" \notin DOMAIN spriteOpts
  /\ spriteOpts.edgeBrightness # defaults.edgeBrightness
  /\ Holds(data, {AlwaysBorder})
  /\ Holds(data, {Empty})
  /\ Holds(data, {RandomlyEmptyBody, RandomlyBorderBody})

\* the four entries calculateColors writes for a cell holding val with rgb
Rgba(val, rgb) == writePixel(<<>>, 0, val, rgb, tintMask(spriteOpts))

\* p is a pixel that a cell holding val can get in gradient step u of ulen
IsPixelOf(p, val, u, ulen) ==
  IF val # Empty /\ spriteOpts.colored
  THEN \E sat \in DrawVals, hue \in DrawVals, draw \in DrawVals :
         p = Rgba(val, coloredRgb(val, spriteOpts, hue, saturationOf(spriteOpts, sat), u, ulen, draw))
  ELSE p = Rgba(val, pixelRgb(val, spriteOpts, 0, 0, u, ulen, 0))

\* C5: the buffer has width * height * 4 entries, all written, and the four
\* entries at (y * width + x) * 4 are the R, G, B, A of cell (x, y), A = 255,
\* on either gradient axis
BufferLayout ==
  (Done /\ W > 0 /\ H > 0)
    => /\ Len(imageData) = W * H * 4
       /\ \A i \in 1..Len(imageData) : imageData[i] # Undefined
       /\ \A c \in Cells :
            /\ pixel(imageData, c)[4] = 255 * Scale
            /\ IsPixelOf(pixel(imageData, c), cell(data, c),
                         IF isVertical THEN c[2] ELSE c[1], IF isVertical THEN H ELSE W)

BufferLayoutWitness ==
  /\ Done
  /\ ~isVertical
  /\ W > 1 /\ H > 1 /\ W # H
  /\ \E c \in Cells : cell(data, c) # cell(data, <<0, 0>>)

\* C6: a cell that is Empty before generateEdges and AlwaysBorder after it has
\* a 4-neighbour that held RandomlyEmptyBody, RandomlyBorderBody or
\* AlwaysBorder before the pass; the other cells are unchanged
EdgeContainment ==
  EdgesDone => \A c \in Cells :
    /\ (cell(preEdges, c) = Empty /\ cell(data, c) = AlwaysBorder)
         => \E n \in Neighbours(c) :
              cell(preEdges, n) \in {RandomlyEmptyBody, RandomlyBorderBody, AlwaysBorder}
    /\ cell(preEdges, c) # Empty => cell(data, c) = cell(preEdges, c)

ScenarioB ==
  /\ mask = ScenarioBMask
  /\ spriteOpts.randomSampleCallback = "identity"
  /\ ~spriteOpts.colored
  /\ "tint" \notin DOMAIN spriteOpts

\* C7: scenario B ends with the grid [AlwaysBorder, RandomlyBorderBody,
\* AlwaysBorder] and the pixel rows (0,0,0,255), (255,255,255,255), (0,0,0,255)
ScenarioBResult ==
  (Done /\ ScenarioB)
    => /\ data = <<AlwaysBorder, RandomlyBorderBody, AlwaysBorder>>
       /\ imageData = Black \o White \o Black

ScenarioBWitness == Done /\ ScenarioB /\ isVertical /\ "edgeBrightness" \in DOMAIN opts

\* the pass of generateEdges scanned from the last cell to the first
RECURSIVE generateEdgesReverseFrom(_, _, _)
generateEdgesReverseFrom(d, m, k) ==
  IF k < 0 THEN d
  ELSE generateEdgesReverseFrom(edgesVisit(d, m, k % width(m), k \div width(m)), m, k - 1)

generateEdgesReverse(d, m) == generateEdgesReverseFrom(d, m, width(m) * height(m) - 1)

\* the pass with two buffers: the neighbours are read in the grid d as it was
\* before the pass
generateEdgesSnapshot(d, m) ==
  [i \in 1..(width(m) * height(m)) |->
     LET cx == (i - 1) % width(m)
         cy == (i - 1) \div width(m)
     IN IF /\ d[i] = Empty
           /\ \/ cy - 1 >= 0 /\ isBody(getData(d, m, cx, cy - 1))
              \/ cy + 1 < height(m) /\ isBody(getData(d, m, cx, cy + 1))
              \/ cx - 1 >= 0 /\ isBody(getData(d, m, cx - 1, cy))
              \/ cx + 1 < width(m) /\ isBody(getData(d, m, cx + 1, cy))
        THEN AlwaysBorder ELSE d[i]]

BiasShapes ==
  {[width |-> w, height |-> h, mirrorX |-> FALSE, mirrorY |-> FALSE] :
     w \in 1..BiasCells, h \in 1..BiasCells}

\* the in-place row-major pass on grid g differs from another order
BiasOn(g, m) ==
  \/ generateEdges(g, m) # generateEdgesReverse(g, m)
  \/ generateEdges(g, m) # generateEdgesSnapshot(g, m)

\* C8, as stated: there is a grid of structural codes on which the in-place
\* row-major pass differs from the reverse scan or from the two-buffer pass
\* (the grid the sprite entered generateEdges with, or any grid of up to
\* BiasCells cells)
DirectionalBias ==
  \/ EdgesDone /\ BiasOn(preEdges, mask)
  \/ \E m \in {b \in BiasShapes : b.width * b.height <= BiasCells} :
       \E g \in [1..(m.width * m.height) -> SpriteStructure] : BiasOn(g, m)

\* C8, amended: the result of generateEdges does not depend on the scan order:
\* on every grid the in-place row-major pass, the reverse scan and the
\* two-buffer pass give the same grid
ScanOrderIndependent ==
  EdgesDone => /\ data = generateEdgesReverse(preEdges, mask)
               /\ data = generateEdgesSnapshot(preEdges, mask)

\* a border set by the pass next to a cell that stays Empty
ScanOrderWitness ==
  /\ EdgesDone
  /\ \E c \in Cells :
       /\ cell(preEdges, c) = Empty
       /\ cell(data, c) = AlwaysBorder
       /\ \E n \in Neighbours(c) : cell(data, n) = Empty

\* the counts of C9
N1 == Cardinality({k \in 0..(mask.width * mask.height - 1) :
                     maskData(mask, k) \in {RandomlyEmptyBody, RandomlyBorderBody}})

K == IF spriteOpts.colored THEN Cardinality({c \in Cells : cell(data, c) # Empty}) ELSE 0

Ulen == IF isVertical THEN H ELSE W

\* C9: with the default callback the sample takes N1 draws and the whole
\* generation N1 + 3 + 3 * ulen + C + K
DrawCount ==
  (Started /\ spriteOpts.randomSampleCallback = "default")
    => /\ pc \in {"mirrorX", "mirrorY", "generateEdges", "calculateColors"} => rng.n = N1
       /\ Done => rng.n = N1 + 3 + 3 * Ulen + hueChanges + K

DrawCountWitness ==
  /\ Done
  /\ spriteOpts.randomSampleCallback = "default"
  /\ spriteOpts.colored
  /\ N1 > 0 /\ N1 < mask.width * mask.height
  /\ hueChanges > 0 /\ hueChanges < Ulen
  /\ K > 0 /\ K < W * H

\* C10: no odd-length warning is emitted; a mirrored axis has twice the
\* mask's length and splits into two halves with no middle column or row
NoOddWarning ==
  Started => /\ warnings = {}
             /\ mask.mirrorX => W = 2 * mask.width /\ 2 * mirrorXHalf(mask) = W
             /\ mask.mirrorY => H = 2 * mask.height /\ 2 * mirrorYHalf(mask) = H

NoOddWarningWitness ==
  /\ Done
  /\ mask.mirrorX /\ mask.mirrorY
  /\ mask.width % 2 = 1 /\ mask.height % 2 = 1
====
